---------------------------- MODULE Spec2Model ----------------------------
(***************************************************************************)
(* Model of the Bayesian-optimization driver OptimizeHyperparameters       *)
(* (src/ho.go), the observations of its Gaussian-process surrogate         *)
(* (src/utils.go) and the progress channel it writes to.                   *)
(*                                                                         *)
(* Numbers.  Parameter values of an integer kind are integers.  Values of  *)
(* a floating-point kind, and every value converted to float64, are        *)
(* multiples of 1/FDen and are represented by their numerator.  Costs are  *)
(* float64 nanosecond counts; math.MaxFloat64 is scaled down to the        *)
(* definition MaxFloat64, which stays far above every measured duration,   *)
(* and PosInf stands for +Inf.                                             *)
(***************************************************************************)
EXTENDS Integers, Sequences, FiniteSets, TLC

\* ------------------------------------------------------------------ bounds
MaxInitialSamples == 1
MaxIterations == 2
MaxCandidates == 2
MaxDims == 1
MaxDuration == 1
MaxCap == 2
\* Observations recorded in a surrogate used outside a run.
MaxObs == 3
\* Number of states of a random source.
RandPeriod == 2
\* Goroutines calling one surrogate, and the calls each of them makes.
NumProcs == 2
MaxCalls == 2

\* ------------------------------------------------- program constants, kinds
\* math.MaxFloat64, scaled: the initial bestTime and bestAcquisition.
MaxFloat64 == 16
\* math.MaxFloat64/2, the base of the failure penalty.
HalfMax == MaxFloat64 \div 2
\* +Inf of float64.
PosInf == MaxFloat64 + 1
\* Denominator of the fixed-point representation of floating-point values.
FDen == 2

\* The kinds named by the first case of safeRandomParams' type switch.
SwitchIntKinds == {"int", "int32", "int64"}
\* The kinds named by its second case.
SwitchFloatKinds == {"float32", "float64"}
\* Kinds admitted by constraints.Integer | constraints.Float that the model
\* instantiates T with: one per case of the switch, and one it does not name.
Kinds == {"int64", "float64", "uint8"}

\* The value n of the program, in the representation of kind T.
Rep(T, n) == IF T \in SwitchFloatKinds THEN n * FDen ELSE n

\* Declared ranges (ParameterRange values), Min <= Max.
RangeSet == {[Min |-> 1, Max |-> 2]}

RECURSIVE SeqsUpTo(_, _)
\* All sequences over S of length at most n.
SeqsUpTo(S, n) ==
    IF n = 0 THEN {<<>>}
    ELSE LET shorter == SeqsUpTo(S, n - 1)
         IN  shorter \cup {Append(s, x) : s \in {t \in shorter : Len(t) = n - 1}, x \in S}

\* ---------------------------------------------------------------- float64
\* A float64 acquisition score: NaN, or the number v.
NaNScore == [nan |-> TRUE, v |-> 0]
Num(x) == [nan |-> FALSE, v |-> x]
\* Scores an AcquisitionFunc may return (it is a caller-supplied function).
Scores == {NaNScore} \cup {Num(x) : x \in {0, 1, PosInf}}

\* a < b on float64: false as soon as a is NaN (b is never NaN here).
FloatLess(a, b) == ~a.nan /\ a.v < b

\* float64 addition a + b of a cost a and a duration b, rounded to nearest:
\* from MaxFloat64/2 upwards the spacing of float64 values (2^970) exceeds
\* twice any int64 nanosecond count, so the duration is rounded away.
Float64Add(a, b) == IF a >= HalfMax /\ 2 * b < HalfMax THEN a ELSE a + b

\* float64(time.Since(startTime).Nanoseconds()) of one objective call.
Durations == 0 .. MaxDuration

\* float64 values are [nan, v]: NaN, or v/FDen with v = PosInf, -PosInf for the
\* infinities.  Every operation rounds its exact result to the nearest
\* multiple of 1/FDen and overflows to an infinity beyond MaxFloat64.
IsInf(a) == ~a.nan /\ (a.v >= PosInf \/ a.v <= -PosInf)
Sign(x) == IF x > 0 THEN 1 ELSE IF x < 0 THEN -1 ELSE 0
Abs(x) == IF x < 0 THEN -x ELSE x
\* n / m rounded to the nearest integer, m > 0.
RoundDiv(n, m) == IF n >= 0 THEN (2 * n + m) \div (2 * m) ELSE -((m - 2 * n) \div (2 * m))
Sat(x) ==
    IF x > MaxFloat64 THEN Num(PosInf) ELSE IF x < -MaxFloat64 THEN Num(-PosInf) ELSE Num(x)
FNeg(a) == IF a.nan THEN a ELSE Num(-a.v)
FAbs(a) == IF a.nan THEN a ELSE Num(Abs(a.v))
\* a + b; a term below half the spacing of float64 values around the other
\* one is rounded away, whatever its sign.
FAdd(a, b) ==
    IF a.nan \/ b.nan THEN NaNScore
    ELSE IF IsInf(a) /\ IsInf(b) THEN (IF a.v = b.v THEN a ELSE NaNScore)
    ELSE IF IsInf(a) THEN a
    ELSE IF IsInf(b) THEN b
    ELSE LET hi == IF Abs(a.v) >= Abs(b.v) THEN a.v ELSE b.v
             lo == IF Abs(a.v) >= Abs(b.v) THEN b.v ELSE a.v
         IN  IF Sign(a.v) * Sign(b.v) > 0
             THEN Sat(Sign(hi) * Float64Add(Abs(hi), Abs(lo)))
             ELSE IF Abs(hi) >= HalfMax /\ 2 * Abs(lo) < HalfMax
                  THEN Num(hi)
                  ELSE Sat(a.v + b.v)
\* a - b
FSub(a, b) == FAdd(a, FNeg(b))
\* a * b
FMul(a, b) ==
    IF a.nan \/ b.nan THEN NaNScore
    ELSE IF IsInf(a) \/ IsInf(b)
         THEN (IF a.v = 0 \/ b.v = 0 THEN NaNScore ELSE Num(Sign(a.v) * Sign(b.v) * PosInf))
         ELSE Sat(RoundDiv(a.v * b.v, FDen))
\* a / b (a zero divisor is +0)
FDiv(a, b) ==
    IF a.nan \/ b.nan THEN NaNScore
    ELSE IF IsInf(a) /\ IsInf(b) THEN NaNScore
    ELSE IF IsInf(a) THEN Num(Sign(a.v) * (IF b.v < 0 THEN -1 ELSE 1) * PosInf)
    ELSE IF IsInf(b) THEN Num(0)
    ELSE IF b.v = 0 THEN (IF a.v = 0 THEN NaNScore ELSE Num(Sign(a.v) * PosInf))
    ELSE Sat(Sign(b.v) * RoundDiv(a.v * FDen, Abs(b.v)))
\* math.Sqrt
FSqrt(a) ==
    IF a.nan \/ a.v < 0 THEN NaNScore
    ELSE IF IsInf(a) THEN a
    ELSE LET n == a.v * FDen
         IN  Num(CHOOSE r \in 0 .. n + 1 :
                   /\ 4 * n < (2 * r + 1) * (2 * r + 1)
                   /\ (r = 0 \/ (2 * r - 1) * (2 * r - 1) <= 4 * n))
\* 1000 * exp(-t/4) for t = 0, 1, ...; exp(-t/4) rounds to 0.01 past the table.
ExpMilli == <<1000, 779, 607, 472, 368, 287, 223, 174, 135, 105, 82, 64, 50, 39, 30, 24, 18>>
\* math.Exp
FExp(a) ==
    IF a.nan THEN NaNScore
    ELSE IF a.v >= PosInf THEN a
    ELSE IF a.v <= -PosInf THEN Num(0)
    ELSE LET t == RoundDiv(Abs(a.v) * 4, FDen)
             milli == IF t < Len(ExpMilli) THEN ExpMilli[t + 1] ELSE 10
         IN  IF a.v <= 0 THEN Num(RoundDiv(FDen * milli, 1000))
             ELSE Sat(RoundDiv(FDen * 1000, milli))
\* a <= b on float64: false as soon as one side is NaN.
FLessEq(a, b) == ~a.nan /\ ~b.nan /\ a.v <= b.v

VARIABLES
    T,               \* the type parameter of OptimizeHyperparameters
    hypers,          \* the declared ranges
    config,          \* OptimizationConfig: counts, ProgressChan (nil or not), AcqParams.BestSoFar
    pc,              \* position of the driver
    i,               \* loop counter of the current phase
    j,               \* candidate counter of the current Phase B iteration
    params,          \* point under evaluation (params in Phase A, nextParams in Phase B)
    candidateParams, \* the candidate drawn last
    bestAcquisition, \* lowest score of the current iteration
    executionTime,   \* recorded cost of the last evaluation
    gpX, gpY,        \* the surrogate's observations
    bestParams, bestTime,
    chanCap, chanBuf, chanClosed, recvWaiting, received,   \* the progress channel and its reader
    evals,           \* history: every invocation of the objective
    sent,            \* history: every update handed to the select of sendProgress
    cands,           \* history: the candidates drawn and scored in the current iteration
    draws,           \* the draws from random sources made by the driver's last step
    panicMsg,        \* message of the panic that aborted the run, "" if none
    gpSigma,         \* the surrogate's kernel width
    rng,             \* state of the generator AcqParams.RandomState points to, or NoRand
    op,              \* the last library call made on its own, with its result
    trail,           \* history: predicted means at a point updated again and again
    gpc,             \* per goroutine calling the surrogate: the statement it is at
    calls,           \* per goroutine: the calls it has still to make
    kidx,            \* per goroutine: the index i of Predict's kernel loop
    muReaders,       \* gp.mu: read locks held
    muWriter         \* gp.mu: the writer that announced itself or holds the lock

vars == <<T, hypers, config, pc, i, j, params, candidateParams, bestAcquisition,
          executionTime, gpX, gpY, bestParams, bestTime, chanCap, chanBuf,
          chanClosed, recvWaiting, received, evals, sent, cands, draws, panicMsg,
          gpSigma, rng, op, trail, gpc, calls, kidx, muReaders, muWriter>>

chanVars == <<chanCap, chanBuf, chanClosed, recvWaiting, received>>
\* What the driver leaves alone: the kernel width, and the state of calls made
\* on the library outside a run.
lockVars == <<gpc, calls, kidx, muReaders, muWriter>>
auxVars == <<gpSigma, rng, op, trail, gpc, calls, kidx, muReaders, muWriter>>
runVars == <<T, hypers, config, pc, i, j, params, candidateParams, bestAcquisition,
             executionTime, gpX, gpY, bestParams, bestTime, evals, sent, cands,
             draws, panicMsg, gpSigma, rng, op, trail, gpc, calls, kidx, muReaders, muWriter>>

d == Len(hypers)

\* newGaussianProcess: sigma is 1.0, in units of 1/FDen.
DefaultSigma == FDen
\* A nil *rand.Rand.
NoRand == [nil |-> TRUE, state |-> 0]
\* The record of one library call: its name, its arguments, and how it ended:
\* kind "value" with the results val (and val2), kind "panic" with the message
\* of an explicit panic(msg), or kind "fault" with that of a Go runtime error.
Call(name, args, out) ==
    [name |-> name, args |-> args, kind |-> out.kind, msg |-> out.msg,
     val |-> out.val, val2 |-> out.val2]
Value2(a, b) == [kind |-> "value", msg |-> "", val |-> a, val2 |-> b]
Value(a) == Value2(a, Num(0))
Panic(msg) == [kind |-> "panic", msg |-> msg, val |-> Num(0), val2 |-> Num(0)]
Fault(msg) == [kind |-> "fault", msg |-> msg, val |-> Num(0), val2 |-> Num(0)]
\* Goroutines that call one surrogate concurrently.
Procs == 1 .. NumProcs
\* No goroutine has a call to make.
NoCalls == [p \in Procs |-> 0]
\* gp.mu with no writer.
NoWriter == [state |-> "free", by |-> 0]
\* No library call made yet.
NoOp == Call("none", <<>>, [kind |-> "none", msg |-> "", val |-> Num(0), val2 |-> Num(0)])

\* make([]T, n): n zero values.
MakeSlice(n) == [k \in 1 .. n |-> 0]

\* copy(dst, src): the first min(len(dst), len(src)) elements are overwritten.
Copy(dst, src) == [k \in 1 .. Len(dst) |-> IF k <= Len(src) THEN src[k] ELSE dst[k]]

Init ==
    /\ T \in Kinds
    /\ \E hs \in SeqsUpTo(RangeSet, MaxDims) :
          hypers = [k \in 1 .. Len(hs) |->
                      [Min |-> Rep(T, hs[k].Min), Max |-> Rep(T, hs[k].Max)]]
    /\ \E is \in 0 .. MaxInitialSamples, it \in 0 .. MaxIterations,
          nc \in 0 .. MaxCandidates, ch \in BOOLEAN :
          config = [InitialSamples |-> is, Iterations |-> it, NumCandidates |-> nc,
                    ProgressChan |-> ch, BestSoFar |-> MaxFloat64]
    /\ chanCap \in 0 .. MaxCap
    /\ (~config.ProgressChan => chanCap = 0)
    /\ pc = "A_loop"
    /\ i = 0
    /\ j = 0
    /\ params = <<>>
    /\ candidateParams = <<>>
    /\ bestAcquisition = MaxFloat64
    /\ executionTime = 0
    /\ gpX = <<>>
    /\ gpY = <<>>
    /\ bestParams = MakeSlice(Len(hypers))
    /\ bestTime = MaxFloat64
    /\ chanBuf = <<>>
    /\ chanClosed = FALSE
    /\ recvWaiting = FALSE
    /\ received = <<>>
    /\ evals = <<>>
    /\ sent = <<>>
    /\ cands = <<>>
    /\ draws = {}
    /\ panicMsg = ""
    /\ gpSigma = DefaultSigma
    /\ rng = NoRand
    /\ op = NoOp
    /\ trail = <<>>
    /\ gpc = [p \in Procs |-> "idle"]
    /\ calls = NoCalls
    /\ kidx = [p \in Procs |-> 0]
    /\ muReaders = 0
    /\ muWriter = NoWriter

\* ------------------------------------------------------- sampling, ho.go
\* The values safeRandomParams can give one dimension: min + rng.Int63n(max-min+1)
\* for the integer kinds its switch names, min + rng.Float64()*(max-min) with
\* rng.Float64() in {0, 1/FDen, ..} for the float kinds, and the zero value
\* left by make for every other kind.
DrawSet(K, hyper) ==
    IF K \in SwitchIntKinds
    THEN {hyper.Min + r : r \in 0 .. (hyper.Max - hyper.Min)}
    ELSE IF K \in SwitchFloatKinds
    THEN {hyper.Min + (k * (hyper.Max - hyper.Min)) \div FDen : k \in 0 .. (FDen - 1)}
    ELSE {0}

\* The points safeRandomParams(hypers) can return.
\* A draw rng.Int63n or rng.Float64 of safeRandomParams, made between
\* rngMu.Lock() and the deferred rngMu.Unlock().
RngDraw == [source |-> "rng", locked |-> TRUE]
\* A draw params.RandomState.NormFloat64() of the acquisition function, called
\* after safeRandomParams has returned and released rngMu.
AcqDraw == [source |-> "RandomState", locked |-> FALSE]
\* The draws of one safeRandomParams call: one per range of a kind the type
\* switch names.
ParamDraws(K, hs) ==
    IF K \in SwitchIntKinds \cup SwitchFloatKinds /\ Len(hs) > 0 THEN {RngDraw} ELSE {}

SafeRandomParams(K, hs) ==
    {p \in [1 .. Len(hs) -> UNION {DrawSet(K, hs[k]) : k \in 1 .. Len(hs)}] :
        \A k \in 1 .. Len(hs) : p[k] \in DrawSet(K, hs[k])}

\* float64(v) of a value of kind K.
ToFloat64(K, v) == IF K \in SwitchFloatKinds THEN v ELSE v * FDen

\* paramsToFloat64s
ParamsToFloat64s(K, p) == [k \in 1 .. Len(p) |-> ToFloat64(K, p[k])]

\* int(v) of a value of kind K: truncation.
ToInt(K, v) == IF K \in SwitchFloatKinds THEN v \div FDen ELSE v

\* ----------------------------------------------------- surrogate, utils.go
\* RBFKernel panics when its two vectors differ in length.
KernelPanics(x1, x2) == Len(x1) # Len(x2)

\* Predict(x) calls RBFKernel(x, gp.X[i]) for every observation.
PredictPanics(X, x) == \E k \in 1 .. Len(X) : KernelPanics(x, X[k])

\* An update that puts the observation at the front of the history.
GpUpdateFront(x, y) ==
    /\ gpX' = <<[k \in 1 .. Len(x) |-> x[k]]>> \o gpX
    /\ gpY' = <<y>> \o gpY

\* gp.Update(x, y): an independent copy of x and y are appended.
GpUpdate(x, y) ==
    /\ gpX' = Append(gpX, [k \in 1 .. Len(x) |-> x[k]])
    /\ gpY' = Append(gpY, y)

\* ------------------------------------------------------ best state, ho.go
\* updateBest with bestParams = params in place of copy(bestParams, params).
UpdateBestAssign(bp, bt, p, t) ==
    IF t < bt
    THEN [bestParams |-> p, bestTime |-> t]
    ELSE [bestParams |-> bp, bestTime |-> bt]

\* updateBest without its comparison: the last evaluation always wins.
UpdateBestAlways(bp, bt, p, t) == [bestParams |-> Copy(bp, p), bestTime |-> t]

\* updateBest(params, executionTime): the new (bestParams, bestTime).
UpdateBest(bp, bt, p, t) ==
    IF t < bt
    THEN [bestParams |-> Copy(bp, p), bestTime |-> t]
    ELSE [bestParams |-> bp, bestTime |-> bt]

\* The cost recorded for an objective call that took dur and returned err.
RecordedCost(err, dur) == IF err THEN Float64Add(HalfMax, dur) ELSE dur

\* ------------------------------------------------------- progress, ho.go
\* The ProgressUpdate built by sendProgress under bestMu.
MakeUpdate(phase, iteration, total, currentParams, execTime) ==
    [Phase |-> phase,
     CurrentIteration |-> iteration,
     TotalIterations |-> total,
     CurrentParams |-> [k \in 1 .. Len(currentParams) |-> ToInt(T, currentParams[k])],
     CurrentBestParams |-> [k \in 1 .. Len(bestParams) |-> ToInt(T, bestParams[k])],
     CurrentBestTime |-> bestTime,
     LastExecutionTime |-> execTime]

\* Does the non-blocking send of sendProgress find the channel ready: a
\* receiver blocked on it, or room in its buffer.
SendReady == recvWaiting \/ Len(chanBuf) < chanCap

\* An overflow that makes room by discarding the oldest buffered update.
SelectDropsOldest(buf, update) ==
    IF Len(buf) > 0 THEN Append(Tail(buf), update) ELSE buf
\* The default branch of the select: the update is skipped, the buffer is
\* left as it is.
SelectDefault(buf, update) == buf

\* sendProgress, then the driver goes on at nextPc.  A nil channel skips the
\* whole body; a send on a closed channel panics; otherwise the select sends
\* when the channel is ready and takes its default branch when it is not.
SendProgress(phase, iteration, total, currentParams, execTime, nextPc) ==
    LET update == MakeUpdate(phase, iteration, total, currentParams, execTime) IN
    IF ~config.ProgressChan
    THEN /\ pc' = nextPc
         /\ UNCHANGED <<chanBuf, recvWaiting, received, sent, panicMsg>>
    ELSE IF chanClosed
    THEN /\ pc' = "panic"
         /\ panicMsg' = "send on closed channel"
         /\ sent' = Append(sent, update)
         /\ UNCHANGED <<chanBuf, recvWaiting, received>>
    ELSE /\ pc' = nextPc
         /\ sent' = Append(sent, update)
         /\ panicMsg' = panicMsg
         /\ IF ~SendReady
            THEN /\ chanBuf' = SelectDefault(chanBuf, update)
                 /\ UNCHANGED <<recvWaiting, received>>
            ELSE IF recvWaiting
            THEN /\ received' = Append(received, update)
                 /\ recvWaiting' = FALSE
                 /\ chanBuf' = chanBuf
            ELSE /\ chanBuf' = Append(chanBuf, update)
                 /\ UNCHANGED <<recvWaiting, received>>

\* ----------------------------------------------------- Phase A, ho.go:233
\* The phase string of the events of the first loop.
PhaseAName == "InitialSampling"
\* The phase string of the events of the second loop, as a second loop copied
\* from the first and not retagged would have it.
PhaseBNameCopied == "InitialSampling"
\* The phase string of the events of the second loop.
PhaseBName == "Optimization"

\* A loop guard written k <= n in place of k < n.
LoopContinuesInclusive(k, n) == k <= n

\* The guard of the three counting loops: k < n.
LoopContinues(k, n) == k < n

\* for i < config.InitialSamples: params := safeRandomParams(hypers)
ASample ==
    /\ pc = "A_loop"
    /\ LoopContinues(i, config.InitialSamples)
    /\ \E p \in SafeRandomParams(T, hypers) : params' = p
    /\ draws' = ParamDraws(T, hypers)
    /\ pc' = "A_eval"
    /\ UNCHANGED <<T, hypers, config, i, j, candidateParams, bestAcquisition,
                   executionTime, gpX, gpY, bestParams, bestTime, evals, sent, cands, panicMsg>>
    /\ UNCHANGED chanVars
    /\ UNCHANGED auxVars

\* The first loop ends; the second starts with i := 0.
AExit ==
    /\ pc = "A_loop"
    /\ ~LoopContinues(i, config.InitialSamples)
    /\ pc' = "B_loop"
    /\ i' = 0
    /\ UNCHANGED <<T, hypers, config, j, params, candidateParams, bestAcquisition,
                   executionTime, gpX, gpY, bestParams, bestTime, evals, sent, cands, panicMsg>>
    /\ UNCHANGED chanVars
    /\ UNCHANGED auxVars
    /\ draws' = {}

\* One timed call of benchmarkFunc(p...), the penalty included.
Evaluate(phase, p, nextPc) ==
    /\ \E err \in BOOLEAN, dur \in Durations :
          /\ executionTime' = RecordedCost(err, dur)
          /\ evals' = Append(evals, [phase |-> phase, point |-> p, failed |-> err,
                                     duration |-> dur, cost |-> RecordedCost(err, dur)])
    /\ pc' = nextPc
    /\ UNCHANGED <<T, hypers, config, i, j, params, gpX, gpY, bestParams, bestTime,
                   sent, panicMsg>>
    /\ UNCHANGED chanVars
    /\ UNCHANGED auxVars
    /\ draws' = {}

\* gp.Update(paramsToFloat64s(p), executionTime)
Observe(p, nextPc) ==
    /\ GpUpdate(ParamsToFloat64s(T, p), executionTime)
    /\ pc' = nextPc
    /\ UNCHANGED <<T, hypers, config, i, j, params, candidateParams, bestAcquisition,
                   executionTime, bestParams, bestTime, evals, sent, cands, panicMsg>>
    /\ UNCHANGED chanVars
    /\ UNCHANGED auxVars
    /\ draws' = {}

\* updateBest(p, executionTime)
Best(p, nextPc) ==
    /\ LET b == UpdateBest(bestParams, bestTime, p, executionTime) IN
          /\ bestParams' = b.bestParams
          /\ bestTime' = b.bestTime
    /\ pc' = nextPc
    /\ UNCHANGED <<T, hypers, config, i, j, params, candidateParams, bestAcquisition,
                   executionTime, gpX, gpY, evals, sent, cands, panicMsg>>
    /\ UNCHANGED chanVars
    /\ UNCHANGED auxVars
    /\ draws' = {}

AEval ==
    /\ pc = "A_eval"
    /\ Evaluate("A", params, "A_update")
    /\ UNCHANGED <<candidateParams, bestAcquisition, cands>>

AUpdate == pc = "A_update" /\ Observe(params, "A_best")

ABest == pc = "A_best" /\ Best(params, "A_send")

\* sendProgress("InitialSampling", i+1, config.InitialSamples, params, executionTime); i++
ASend ==
    /\ pc = "A_send"
    /\ SendProgress(PhaseAName, i + 1, config.InitialSamples, params,
                    executionTime, "A_loop")
    /\ i' = i + 1
    /\ UNCHANGED <<T, hypers, config, j, params, candidateParams, bestAcquisition,
                   executionTime, gpX, gpY, bestParams, bestTime, evals, cands>>
    /\ UNCHANGED <<chanCap, chanClosed>>
    /\ UNCHANGED auxVars
    /\ draws' = {}

\* BestSoFar left as it was.
BestSoFarKept(current, best) == current
\* config.AcqParams.BestSoFar = bestTime
BestSoFarRefreshed(current, best) == best

\* ----------------------------------------------------- Phase B, ho.go:262
\* for i < config.Iterations: nextParams := nil, bestAcquisition := MaxFloat64,
\* config.AcqParams.BestSoFar = bestTime
BStart ==
    /\ pc = "B_loop"
    /\ LoopContinues(i, config.Iterations)
    /\ params' = <<>>
    /\ bestAcquisition' = MaxFloat64
    /\ config' = [config EXCEPT !.BestSoFar = BestSoFarRefreshed(config.BestSoFar, bestTime)]
    /\ j' = 0
    /\ cands' = <<>>
    /\ pc' = "B_cand"
    /\ UNCHANGED <<T, hypers, i, candidateParams, executionTime, gpX, gpY,
                   bestParams, bestTime, evals, sent, panicMsg>>
    /\ UNCHANGED chanVars
    /\ UNCHANGED auxVars
    /\ draws' = {}

\* The second loop ends: return bestParams.
BExit ==
    /\ pc = "B_loop"
    /\ ~LoopContinues(i, config.Iterations)
    /\ pc' = "done"
    /\ UNCHANGED <<T, hypers, config, i, j, params, candidateParams, bestAcquisition,
                   executionTime, gpX, gpY, bestParams, bestTime, evals, sent, cands, panicMsg>>
    /\ UNCHANGED chanVars
    /\ UNCHANGED auxVars
    /\ draws' = {}

\* The candidate kept after scoring cand with acquisition.
Select(acquisition, cand) ==
    IF FloatLess(acquisition, bestAcquisition)
    THEN [bestAcquisition |-> acquisition.v, nextParams |-> cand]
    ELSE [bestAcquisition |-> bestAcquisition, nextParams |-> params]

\* for j < config.NumCandidates: draw a candidate, predict, score, keep the lowest.
\* The AcquisitionFunc is the caller's: it may return any score and may draw
\* from config.AcqParams.RandomState, as ThompsonSampling does.
BCandidate ==
    /\ pc = "B_cand"
    /\ LoopContinues(j, config.NumCandidates)
    /\ \E cand \in SafeRandomParams(T, hypers) :
          /\ candidateParams' = cand
          /\ IF PredictPanics(gpX, ParamsToFloat64s(T, cand))
             THEN /\ pc' = "panic"
                  /\ panicMsg' = "input vectors must have the same length"
                  /\ draws' = ParamDraws(T, hypers)
                  /\ UNCHANGED <<j, params, bestAcquisition, cands>>
             ELSE \E acquisition \in Scores, drew \in BOOLEAN :
                  LET s == Select(acquisition, cand) IN
                  /\ bestAcquisition' = s.bestAcquisition
                  /\ params' = s.nextParams
                  /\ j' = j + 1
                  /\ cands' = Append(cands, [point |-> cand, score |-> acquisition,
                                             bestSoFar |-> config.BestSoFar])
                  /\ draws' = ParamDraws(T, hypers) \cup (IF drew THEN {AcqDraw} ELSE {})
                  /\ pc' = "B_cand"
                  /\ panicMsg' = panicMsg
    /\ UNCHANGED <<T, hypers, config, i, executionTime, gpX, gpY, bestParams,
                   bestTime, evals, sent>>
    /\ UNCHANGED chanVars
    /\ UNCHANGED auxVars

\* The inner loop ends: benchmarkFunc(nextParams...).  candidateParams and
\* bestAcquisition are not read again before they are reassigned.
BEval ==
    /\ pc = "B_cand"
    /\ ~LoopContinues(j, config.NumCandidates)
    /\ Evaluate("B", params, "B_update")
    /\ candidateParams' = <<>>
    /\ bestAcquisition' = MaxFloat64
    /\ cands' = <<>>

BUpdate == pc = "B_update" /\ Observe(params, "B_best")

BBest == pc = "B_best" /\ Best(params, "B_send")

\* sendProgress("Optimization", i+1, config.Iterations, nextParams, executionTime); i++
BSend ==
    /\ pc = "B_send"
    /\ SendProgress(PhaseBName, i + 1, config.Iterations, params,
                    executionTime, "B_loop")
    /\ i' = i + 1
    /\ UNCHANGED <<T, hypers, config, j, params, candidateParams, bestAcquisition,
                   executionTime, gpX, gpY, bestParams, bestTime, evals, cands>>
    /\ UNCHANGED <<chanCap, chanClosed>>
    /\ UNCHANGED auxVars
    /\ draws' = {}

\* ------------------------------------------- the observer of the channel
\* The observer's steps commute with every step of the driver but the send of
\* sendProgress, so they are interleaved where they can make a difference:
\* right before a send, and after the run.
ObserverTurn == pc \in {"A_send", "B_send", "done"}

\* The reader takes the oldest buffered update.
Receive ==
    /\ ObserverTurn
    /\ config.ProgressChan
    /\ Len(chanBuf) > 0
    /\ received' = Append(received, Head(chanBuf))
    /\ chanBuf' = Tail(chanBuf)
    /\ UNCHANGED <<chanCap, chanClosed, recvWaiting>>
    /\ UNCHANGED runVars

\* The reader blocks in a receive on the empty, open channel.
ReceiveWait ==
    /\ config.ProgressChan
    /\ ~chanClosed
    /\ Len(chanBuf) = 0
    /\ ~recvWaiting
    /\ pc \in {"A_send", "B_send"}
    /\ recvWaiting' = TRUE
    /\ UNCHANGED <<chanCap, chanBuf, chanClosed, received>>
    /\ UNCHANGED runVars

\* The observer closes the channel; a blocked receive returns.
Close ==
    /\ ObserverTurn
    /\ config.ProgressChan
    /\ ~chanClosed
    /\ chanClosed' = TRUE
    /\ recvWaiting' = FALSE
    /\ UNCHANGED <<chanCap, chanBuf, received>>
    /\ UNCHANGED runVars

Driver ==
    \/ ASample \/ AExit \/ AEval \/ AUpdate \/ ABest \/ ASend
    \/ BStart \/ BExit \/ BCandidate \/ BEval \/ BUpdate \/ BBest \/ BSend

Observer == Receive \/ ReceiveWait \/ Close

Next ==
    \/ ASample \/ AExit \/ AEval \/ AUpdate \/ ABest \/ ASend
    \/ BStart \/ BExit \/ BCandidate \/ BEval \/ BUpdate \/ BBest \/ BSend
    \/ Receive \/ ReceiveWait \/ Close

Spec == Init /\ [][Next]_vars

\* The Go scheduler keeps running the driver's goroutine; the observer is
\* under no obligation.
LiveSpec == Spec /\ WF_vars(Driver)

TypeOK ==
    /\ T \in Kinds
    /\ pc \in {"A_loop", "A_eval", "A_update", "A_best", "A_send", "B_loop",
               "B_cand", "B_update", "B_best", "B_send", "done", "panic"}
    /\ Len(gpX) = Len(gpY)
    /\ bestTime \in 0 .. MaxFloat64

\* ------------------------------------------- the surrogate's numbers, utils.go
RECURSIVE SquaredDistance(_, _, _)
\* for i := range x1 { diff := x1[i] - x2[i]; sum += diff * diff }, first k rounds
SquaredDistance(x1, x2, k) ==
    IF k = 0 THEN Num(0)
    ELSE LET sum == SquaredDistance(x1, x2, k - 1)
             diff == FSub(Num(x1[k]), Num(x2[k]))
         IN  FAdd(sum, FMul(diff, diff))

\* The kernel with diff := x1[i] in place of x1[i] - x2[i].
KernelValueOfFirst(x1, x2, sigma) ==
    FExp(FDiv(FNeg(SquaredDistance(x1, [k \in 1 .. Len(x1) |-> 0], Len(x1))),
              FMul(FMul(Num(2 * FDen), Num(sigma)), Num(sigma))))

\* math.Exp(-sum / (2 * sigma * sigma))
KernelValue(x1, x2, sigma) ==
    FExp(FDiv(FNeg(SquaredDistance(x1, x2, Len(x1))),
              FMul(FMul(Num(2 * FDen), Num(sigma)), Num(sigma))))

\* gp.RBFKernel(x1, x2)
RBFKernel(x1, x2, sigma) ==
    IF KernelPanics(x1, x2) THEN Panic("input vectors must have the same length")
    ELSE Value(KernelValue(x1, x2, sigma))

RECURSIVE WeightedSum(_, _, _)
\* for i := range gp.X { sum += k[i] * gp.Y[i] }, first n rounds
WeightedSum(k, Y, n) ==
    IF n = 0 THEN Num(0)
    ELSE LET sum == WeightedSum(k, Y, n - 1)
         IN  FAdd(sum, FMul(k[n], Num(Y[n])))

RECURSIVE VarianceLoop(_, _, _)
\* variance = 1.0; variance -= k[i] * k[j] / float64(len(gp.X)), first m rounds
\* of the double loop over i and j.
VarianceLoop(k, n, m) ==
    IF m = 0 THEN Num(FDen)
    ELSE LET variance == VarianceLoop(k, n, m - 1)
             a == ((m - 1) \div n) + 1
             b == ((m - 1) % n) + 1
         IN  FSub(variance, FDiv(FMul(k[a], k[b]), Num(n * FDen)))

\* The body of Predict after the check for an empty history.
PredictFromHistory(X, Y, sigma, x) ==
    LET n == Len(X)
        k == [a \in 1 .. n |-> KernelValue(x, X[a], sigma)]
    IN  Value2(FDiv(WeightedSum(k, Y, n), Num(n * FDen)), VarianceLoop(k, n, n * n))

\* Predict without "if len(gp.X) == 0 { return 0, 1 }".
PredictUnguarded(X, Y, sigma, x) ==
    IF PredictPanics(X, x) THEN Panic("input vectors must have the same length")
    ELSE PredictFromHistory(X, Y, sigma, x)

\* gp.Predict(x)
Predict(X, Y, sigma, x) ==
    IF Len(X) = 0 THEN Value2(Num(0), Num(FDen))
    ELSE IF PredictPanics(X, x) THEN Panic("input vectors must have the same length")
    ELSE PredictFromHistory(X, Y, sigma, x)

\* ------------------------------------------------- acquisitionfunction.go
\* 1000 * Phi(h/2) for h = 0, 1, ...; Phi rounds to 1 past the table.
PhiMilli == <<500, 691, 841, 933, 977, 994, 999>>
\* 0.5 * (1.0 + math.Erf(x/math.Sqrt2))
normalCDF(x) ==
    IF x.nan THEN NaNScore
    ELSE LET h == RoundDiv(Abs(x.v) * 2, FDen)
             milli == IF h < Len(PhiMilli) THEN PhiMilli[h + 1] ELSE 1000
         IN  Num(RoundDiv(FDen * (IF x.v < 0 THEN 1000 - milli ELSE milli), 1000))
\* math.Pi
Pi == Num(RoundDiv(FDen * 3142, 1000))
\* math.Exp(-x*x/2.0) / math.Sqrt(2.0*math.Pi)
normalPDF(x) ==
    FDiv(FExp(FDiv(FMul(FNeg(x), x), Num(2 * FDen))), FSqrt(FMul(Num(2 * FDen), Pi)))

\* A generator that never moves on.
RandStuck(state) == state
\* The generator's state after one draw.
RandNext(state) == (state + 1) % RandPeriod
\* The value NormFloat64 draws in a state.
NormFloat64(state) == Num((state - RandPeriod \div 2) * FDen)

\* What a call leaves behind: how it ended, and the generator afterwards.  ap is
\* the AcquisitionParams argument.
Pure(score, ap) == [out |-> Value(score), rand |-> ap.RandomState]

UCB(mean, variance, ap) ==
    Pure(FSub(mean, FMul(ap.Beta, FSqrt(variance))), ap)

ProbabilityOfImprovement(mean, variance, ap) ==
    LET z == FDiv(FSub(FSub(mean, ap.BestSoFar), ap.Xi), FSqrt(variance))
    IN  Pure(normalCDF(z), ap)

ExpectedImprovement(mean, variance, ap) ==
    LET sigma == FSqrt(variance)
        gain == FSub(FSub(mean, ap.BestSoFar), ap.Xi)
        z == FDiv(gain, sigma)
    IN  Pure(FAdd(FMul(gain, normalCDF(z)), FMul(sigma, normalPDF(z))), ap)

\* mean + math.Sqrt(variance)*params.RandomState.NormFloat64(): the method reads
\* through its receiver, a nil *rand.Rand is a nil pointer dereference.
ThompsonSampling(mean, variance, ap) ==
    IF ap.RandomState.nil
    THEN [out |-> Fault("invalid memory address or nil pointer dereference"),
          rand |-> ap.RandomState]
    ELSE [out |-> Value(FAdd(mean, FMul(FSqrt(variance),
                                        NormFloat64(ap.RandomState.state)))),
          rand |-> [nil |-> FALSE, state |-> RandNext(ap.RandomState.state)]]

AcquisitionNames == {"UCB", "ProbabilityOfImprovement", "ExpectedImprovement",
                     "ThompsonSampling"}
\* The AcquisitionFunc of that name, applied.
Acquire(name, mean, variance, ap) ==
    CASE name = "UCB" -> UCB(mean, variance, ap)
      [] name = "ProbabilityOfImprovement" -> ProbabilityOfImprovement(mean, variance, ap)
      [] name = "ExpectedImprovement" -> ExpectedImprovement(mean, variance, ap)
      [] name = "ThompsonSampling" -> ThompsonSampling(mean, variance, ap)

\* ------------------------------------ calls on the library outside a run
\* Arguments the calls are made with.
LibPoints == SeqsUpTo({0, FDen}, MaxDims)
LibCosts == {FDen, HalfMax}
Sigmas == {0, FDen}
Means == {Num(0), Num(FDen), Num(MaxFloat64)}
Variances == {Num(-FDen), Num(FDen)}
Betas == {Num(0), Num(FDen), Num(2 * FDen)}
RandomStates == {NoRand} \cup {[nil |-> FALSE, state |-> st] : st \in 0 .. RandPeriod - 1}

\* What these calls leave alone: the state of a run.
idleVars == <<T, hypers, config, pc, i, j, params, candidateParams, bestAcquisition,
              executionTime, bestParams, bestTime, evals, sent, cands, draws, panicMsg,
              chanCap, chanBuf, chanClosed, recvWaiting, received>>

\* No run going on, a fresh surrogate (newGaussianProcess), no call made yet.
LibInit ==
    /\ T = "float64"
    /\ hypers = <<>>
    /\ config = [InitialSamples |-> 0, Iterations |-> 0, NumCandidates |-> 0,
                 ProgressChan |-> FALSE, BestSoFar |-> MaxFloat64]
    /\ pc = "idle"
    /\ i = 0
    /\ j = 0
    /\ params = <<>>
    /\ candidateParams = <<>>
    /\ bestAcquisition = MaxFloat64
    /\ executionTime = 0
    /\ bestParams = <<>>
    /\ bestTime = MaxFloat64
    /\ chanCap = 0
    /\ chanBuf = <<>>
    /\ chanClosed = FALSE
    /\ recvWaiting = FALSE
    /\ received = <<>>
    /\ evals = <<>>
    /\ sent = <<>>
    /\ cands = <<>>
    /\ draws = {}
    /\ panicMsg = ""
    /\ gpX = <<>>
    /\ gpY = <<>>
    /\ gpSigma = DefaultSigma
    /\ op = NoOp
    /\ trail = <<>>
    /\ gpc = [p \in Procs |-> "idle"]
    /\ kidx = [p \in Procs |-> 0]
    /\ muReaders = 0
    /\ muWriter = NoWriter

\* One entry of trail: after an update with (p, c), how far predict(p).mean is
\* from c, and whether predict(p) returned at all.
TrailEntry(p, c, predicted) ==
    [p |-> p, c |-> c, ok |-> predicted.kind = "value",
     dist |-> FAbs(FSub(predicted.val, Num(c)))]

\* gp.Update(x, y).  trail follows a streak of updates with the same x and y,
\* starting with the prediction before the first of them.
LibUpdate ==
    /\ Len(gpX) < MaxObs
    /\ \E x \in LibPoints, y \in LibCosts :
          LET before == TrailEntry(x, y, Predict(gpX, gpY, gpSigma, x))
              after == TrailEntry(x, y, Predict(Append(gpX, x), Append(gpY, y), gpSigma, x))
          IN  /\ GpUpdate(x, y)
              /\ op' = Call("Update", <<x, y>>, Value(Num(0)))
              /\ trail' = IF trail # <<>> /\ trail[1].p = x /\ trail[1].c = y
                          THEN Append(trail, after)
                          ELSE <<before, after>>
    /\ UNCHANGED <<gpSigma, rng>>
    /\ UNCHANGED idleVars
    /\ UNCHANGED lockVars

\* Update storing the caller's slice itself.
UpdateKeepsSlice == FALSE
\* newX := make([]float64, len(x)); copy(newX, x): the vector Update stores has
\* a backing array of its own.
UpdateCopies == TRUE

\* After Update(x, y) has returned, its caller overwrites a coordinate of x.
LibCallerWrite ==
    /\ op.name = "Update"
    /\ \E k \in 1 .. Len(op.args[1]), v \in {0, FDen} :
          LET written == [op.args[1] EXCEPT ![k] = v]
          IN  /\ v # op.args[1][k]
              /\ op' = [op EXCEPT !.args = <<written, op.args[2]>>]
              /\ gpX' = IF UpdateCopies THEN gpX ELSE [gpX EXCEPT ![Len(gpX)] = written]
    /\ UNCHANGED <<gpY, gpSigma, rng, trail>>
    /\ UNCHANGED idleVars
    /\ UNCHANGED lockVars

\* gp.SetSigma(sigma)
LibSetSigma ==
    /\ \E sigma \in Sigmas :
          /\ gpSigma' = sigma
          /\ op' = Call("SetSigma", <<sigma>>, Value(Num(0)))
    /\ trail' = <<>>
    /\ UNCHANGED <<gpX, gpY, rng>>
    /\ UNCHANGED idleVars
    /\ UNCHANGED lockVars

\* gp.Predict(x)
LibPredict ==
    /\ \E x \in LibPoints : op' = Call("Predict", <<x>>, Predict(gpX, gpY, gpSigma, x))
    /\ UNCHANGED <<gpX, gpY, gpSigma, rng, trail>>
    /\ UNCHANGED idleVars
    /\ UNCHANGED lockVars

\* gp.RBFKernel(x1, x2)
LibKernel ==
    /\ \E x1 \in LibPoints, x2 \in LibPoints :
          op' = Call("RBFKernel", <<x1, x2>>, RBFKernel(x1, x2, gpSigma))
    /\ UNCHANGED <<gpX, gpY, gpSigma, rng, trail>>
    /\ UNCHANGED idleVars
    /\ UNCHANGED lockVars

\* One call of an acquisition function, params.RandomState being rng.
LibAcquire ==
    /\ \E name \in AcquisitionNames, mean \in Means, variance \in Variances, beta \in Betas :
          LET acqParams == [Beta |-> beta, Xi |-> Num(0), BestSoFar |-> Num(FDen),
                            RandomState |-> rng]
              r == Acquire(name, mean, variance, acqParams)
          IN  /\ op' = Call(name, <<mean, variance, beta, acqParams.Xi,
                                    acqParams.BestSoFar>>, r.out)
              /\ rng' = r.rand
    /\ UNCHANGED <<gpX, gpY, gpSigma, trail>>
    /\ UNCHANGED idleVars
    /\ UNCHANGED lockVars

\* A measurement that reports a failed call by the value 0.
measureExecutionTimeZeroOnError(err, duration) ==
    IF err THEN Num(0) ELSE Num(duration)
\* measureExecutionTime(f, params) when f returns err after duration: the
\* penalty MaxFloat64/2 plus the duration for a failed call, the duration
\* otherwise.
measureExecutionTime(err, duration) ==
    IF err THEN FAdd(Num(HalfMax), Num(duration)) ELSE Num(duration)

\* One call measureExecutionTime(f, params) of a benchmark function that
\* fails or not and takes any measurable duration.
LibMeasure ==
    /\ \E err \in BOOLEAN, duration \in Durations :
          op' = Call("measureExecutionTime", <<err, Num(duration)>>,
                     Value(measureExecutionTime(err, duration)))
    /\ UNCHANGED <<gpX, gpY, gpSigma, rng, trail>>
    /\ UNCHANGED idleVars
    /\ UNCHANGED lockVars

\* Calls on one surrogate, one after the other.
GPInit == LibInit /\ rng = NoRand /\ calls = NoCalls
GPNext == LibUpdate \/ LibCallerWrite \/ LibSetSigma \/ LibPredict \/ LibKernel
GPSpec == GPInit /\ [][GPNext]_vars

\* Calls of the stateless functions of the package: the acquisition
\* functions, with one random source or none, and measureExecutionTime.
AcqInit == LibInit /\ rng \in RandomStates /\ calls = NoCalls
AcqNext == LibAcquire \/ LibMeasure
AcqSpec == AcqInit /\ [][AcqNext]_vars

\* ------------------- goroutines calling one surrogate concurrently, utils.go
\* sync.RWMutex: RLock blocks while a writer holds the lock or has announced
\* itself with Lock; Lock announces itself once no other writer is there, then
\* waits until every read lock is released.
CanRLock == muWriter.state = "free"
RLock == CanRLock /\ muReaders' = muReaders + 1 /\ UNCHANGED muWriter
RUnlock == muReaders' = muReaders - 1 /\ UNCHANGED muWriter
LockAnnounce(p) ==
    /\ muWriter.state = "free"
    /\ muWriter' = [state |-> "pending", by |-> p]
    /\ UNCHANGED muReaders
LockAcquire(p) ==
    /\ muWriter = [state |-> "pending", by |-> p]
    /\ muReaders = 0
    /\ muWriter' = [state |-> "held", by |-> p]
    /\ UNCHANGED muReaders
Unlock == muWriter' = NoWriter /\ UNCHANGED muReaders

\* The goroutine moves on to statement to.
Goto(p, to) == gpc' = [gpc EXCEPT ![p] = to]

\* What the methods of the surrogate leave alone.
lockFrame == <<rng, op, trail>>

\* Update taking gp.mu.RLock() in place of gp.mu.Lock().
UpdateLockModeRead == "read"
\* gp.mu.Lock() in Update.
UpdateLockMode == "write"
\* SetSigma taking gp.mu.RLock() in place of gp.mu.Lock().
SetSigmaLockModeRead == "read"
\* gp.mu.Lock() in SetSigma.
SetSigmaLockMode == "write"

\* The vector and the cost concurrent updates record, the width they set.
LockPoint == <<0>>
LockCost == FDen

\* A goroutine starts its next call: Predict, RBFKernel, GetSigma, Update or
\* SetSigma.
GoCall(p) ==
    /\ gpc[p] = "idle"
    /\ calls[p] > 0
    /\ calls' = [calls EXCEPT ![p] = calls[p] - 1]
    /\ \E entry \in {"P_rlock", "K_rlock", "G_rlock", "U_lock", "S_lock"} : Goto(p, entry)
    /\ UNCHANGED <<kidx, muReaders, muWriter, gpX, gpY, gpSigma>>
    /\ UNCHANGED lockFrame
    /\ UNCHANGED idleVars

\* Predict: gp.mu.RLock(); defer gp.mu.RUnlock()
PredictRLock(p) ==
    /\ gpc[p] = "P_rlock"
    /\ RLock
    /\ kidx' = [kidx EXCEPT ![p] = 0]
    /\ Goto(p, "P_loop")
    /\ UNCHANGED <<calls, gpX, gpY, gpSigma>>
    /\ UNCHANGED lockFrame
    /\ UNCHANGED idleVars

\* Predict: return 0, 1 on an empty history; otherwise for i := range gp.X
\* call gp.RBFKernel(x, gp.X[i]); after the loop compute and return.
PredictLoop(p) ==
    /\ gpc[p] = "P_loop"
    /\ IF kidx[p] < Len(gpX) THEN Goto(p, "PK_rlock") ELSE Goto(p, "P_runlock")
    /\ UNCHANGED <<calls, kidx, muReaders, muWriter, gpX, gpY, gpSigma>>
    /\ UNCHANGED lockFrame
    /\ UNCHANGED idleVars

\* RBFKernel called by Predict: gp.mu.RLock(), with Predict's read lock held.
PredictKernelRLock(p) ==
    /\ gpc[p] = "PK_rlock"
    /\ RLock
    /\ Goto(p, "PK_runlock")
    /\ UNCHANGED <<calls, kidx, gpX, gpY, gpSigma>>
    /\ UNCHANGED lockFrame
    /\ UNCHANGED idleVars

\* sigma := gp.sigma; gp.mu.RUnlock(); the kernel value; i++
PredictKernelRUnlock(p) ==
    /\ gpc[p] = "PK_runlock"
    /\ RUnlock
    /\ kidx' = [kidx EXCEPT ![p] = kidx[p] + 1]
    /\ Goto(p, "P_loop")
    /\ UNCHANGED <<calls, gpX, gpY, gpSigma>>
    /\ UNCHANGED lockFrame
    /\ UNCHANGED idleVars

\* Predict returns: the deferred gp.mu.RUnlock().
PredictRUnlock(p) ==
    /\ gpc[p] = "P_runlock"
    /\ RUnlock
    /\ Goto(p, "idle")
    /\ UNCHANGED <<calls, kidx, gpX, gpY, gpSigma>>
    /\ UNCHANGED lockFrame
    /\ UNCHANGED idleVars

\* RBFKernel and GetSigma called on their own: gp.mu.RLock()
ReadRLock(p) ==
    /\ gpc[p] \in {"K_rlock", "G_rlock"}
    /\ RLock
    /\ Goto(p, IF gpc[p] = "K_rlock" THEN "K_runlock" ELSE "G_runlock")
    /\ UNCHANGED <<calls, kidx, gpX, gpY, gpSigma>>
    /\ UNCHANGED lockFrame
    /\ UNCHANGED idleVars

\* They read gp.sigma and gp.mu.RUnlock().
ReadRUnlock(p) ==
    /\ gpc[p] \in {"K_runlock", "G_runlock"}
    /\ RUnlock
    /\ Goto(p, "idle")
    /\ UNCHANGED <<calls, kidx, gpX, gpY, gpSigma>>
    /\ UNCHANGED lockFrame
    /\ UNCHANGED idleVars

\* The lock mode of the call the goroutine is in.
ModeAt(p) == IF gpc[p] \in {"U_lock", "U_unlock"} THEN UpdateLockMode ELSE SetSigmaLockMode

\* Update and SetSigma: gp.mu.Lock() is called.
WriteLock(p) ==
    /\ gpc[p] \in {"U_lock", "S_lock"}
    /\ IF ModeAt(p) = "write"
       THEN LockAnnounce(p) /\ Goto(p, IF gpc[p] = "U_lock" THEN "U_wait" ELSE "S_wait")
       ELSE RLock /\ Goto(p, IF gpc[p] = "U_lock" THEN "U_appendX" ELSE "S_write")
    /\ UNCHANGED <<calls, kidx, gpX, gpY, gpSigma>>
    /\ UNCHANGED lockFrame
    /\ UNCHANGED idleVars

\* gp.mu.Lock() returns once the readers are gone.
WriteLockAcquire(p) ==
    /\ gpc[p] \in {"U_wait", "S_wait"}
    /\ LockAcquire(p)
    /\ Goto(p, IF gpc[p] = "U_wait" THEN "U_appendX" ELSE "S_write")
    /\ UNCHANGED <<calls, kidx, gpX, gpY, gpSigma>>
    /\ UNCHANGED lockFrame
    /\ UNCHANGED idleVars

\* Update: gp.X = append(gp.X, newX)
UpdateAppendX(p) ==
    /\ gpc[p] = "U_appendX"
    /\ gpX' = Append(gpX, LockPoint)
    /\ Goto(p, "U_appendY")
    /\ UNCHANGED <<calls, kidx, muReaders, muWriter, gpY, gpSigma>>
    /\ UNCHANGED lockFrame
    /\ UNCHANGED idleVars

\* Update: gp.Y = append(gp.Y, y)
UpdateAppendY(p) ==
    /\ gpc[p] = "U_appendY"
    /\ gpY' = Append(gpY, LockCost)
    /\ Goto(p, "U_unlock")
    /\ UNCHANGED <<calls, kidx, muReaders, muWriter, gpX, gpSigma>>
    /\ UNCHANGED lockFrame
    /\ UNCHANGED idleVars

\* SetSigma: gp.sigma = sigma
SetSigmaWrite(p) ==
    /\ gpc[p] = "S_write"
    /\ \E sigma \in Sigmas : gpSigma' = sigma
    /\ Goto(p, "S_unlock")
    /\ UNCHANGED <<calls, kidx, muReaders, muWriter, gpX, gpY>>
    /\ UNCHANGED lockFrame
    /\ UNCHANGED idleVars

\* Update and SetSigma return: the deferred gp.mu.Unlock().
WriteUnlock(p) ==
    /\ gpc[p] \in {"U_unlock", "S_unlock"}
    /\ IF ModeAt(p) = "write" THEN Unlock ELSE RUnlock
    /\ Goto(p, "idle")
    /\ UNCHANGED <<calls, kidx, gpX, gpY, gpSigma>>
    /\ UNCHANGED lockFrame
    /\ UNCHANGED idleVars

Goroutine(p) ==
    \/ GoCall(p)
    \/ PredictRLock(p) \/ PredictLoop(p) \/ PredictKernelRLock(p)
    \/ PredictKernelRUnlock(p) \/ PredictRUnlock(p)
    \/ ReadRLock(p) \/ ReadRUnlock(p)
    \/ WriteLock(p) \/ WriteLockAcquire(p)
    \/ UpdateAppendX(p) \/ UpdateAppendY(p) \/ SetSigmaWrite(p)
    \/ WriteUnlock(p)

LockInit == LibInit /\ rng = NoRand /\ calls = [p \in Procs |-> MaxCalls]
LockNext == \E p \in Procs : Goroutine(p)
LockSpec == LockInit /\ [][LockNext]_vars

\* The goroutine holds a read lock, a write lock, is inside Predict.
InPredict(p) == gpc[p] \in {"P_loop", "PK_rlock", "PK_runlock", "P_runlock"}
InRead(p) == InPredict(p) \/ gpc[p] \in {"K_runlock", "G_runlock"}
InWrite(p) == gpc[p] \in {"U_appendX", "U_appendY", "U_unlock", "S_write", "S_unlock"}

\* ---------------------------------------------------------------- claims
\* The run has ended: it returned, or a panic aborted it.
Terminated == pc \in {"done", "panic"}

\* The number of objective calls the configuration asks for.
TotalEvaluations == config.InitialSamples + config.Iterations

\* C1: the vector a run returns has as many elements as there are declared
\* dimensions, whatever the counts, the scores and the objective's outcomes.
C1_ReturnedLength == pc = "done" => Len(bestParams) = Len(hypers)

\* A run over one dimension has returned after evaluating, among others, a
\* point with no parameters, with a failed and a successful call.
C1_Witness ==
    /\ pc = "done"
    /\ Len(hypers) = 1
    /\ \E k \in 1 .. Len(evals) : Len(evals[k].point) = 0
    /\ \E k \in 1 .. Len(evals) : evals[k].failed
    /\ \E k \in 1 .. Len(evals) : ~evals[k].failed

\* C2: no step raises the best cost, and it changes only in updateBest, only
\* to the cost just recorded and only when that cost is strictly lower.
C2_BestCostMonotone ==
    [][/\ bestTime' <= bestTime
       /\ (bestTime' # bestTime =>
              /\ pc \in {"A_best", "B_best"}
              /\ executionTime < bestTime
              /\ bestTime' = executionTime)]_vars

\* Three evaluations are done: the second lowered the best cost, the third,
\* costlier, left it alone.
C2_Witness ==
    /\ pc = "done"
    /\ Len(evals) = 3
    /\ evals[2].cost < evals[1].cost
    /\ evals[3].cost > evals[2].cost
    /\ bestTime = evals[2].cost

\* The earliest evaluation of lowest recorded cost.
FirstMin ==
    CHOOSE k \in 1 .. Len(evals) :
        /\ \A m \in 1 .. Len(evals) : evals[k].cost <= evals[m].cost
        /\ \A m \in 1 .. (k - 1) : evals[m].cost > evals[k].cost

\* C3: a run with at least one evaluation returns the point it passed to the
\* earliest evaluation of lowest recorded cost.
C3_ReturnsArgMin ==
    (pc = "done" /\ Len(evals) > 0) => bestParams = evals[FirstMin].point

\* C4: a run whose channel nobody closed ends after exactly
\* InitialSamples + Iterations objective calls, never earlier.
C4_ExactlyTotalCalls ==
    (Terminated /\ ~chanClosed) => Len(evals) = TotalEvaluations

\* The second loop has been entered.
PhaseBBegun == pc \in {"B_loop", "B_cand", "B_update", "B_best", "B_send", "done"}

\* Number of elements of the sequence s that satisfy Test.
Count(s, Test(_)) == Cardinality({k \in 1 .. Len(s) : Test(s[k])})

IsPhaseAEval(e) == e.phase = "A"
IsPhaseAEvent(u) == u.Phase = PhaseAName

\* Once Phase B has begun, all of Phase A lies behind: its evaluations, its
\* observations and its events.
C5_PhaseADone ==
    PhaseBBegun =>
        /\ Count(evals, IsPhaseAEval) = config.InitialSamples
        /\ Len(gpX) >= config.InitialSamples
        /\ (config.ProgressChan => Count(sent, IsPhaseAEvent) = config.InitialSamples)

\* A step taken after Phase B has begun is no Phase A step: it evaluates no
\* Phase A sample, emits no "InitialSampling" event and does not go back.
C5_NoWayBack ==
    PhaseBBegun =>
        /\ pc' \in {"B_loop", "B_cand", "B_update", "B_best", "B_send", "done", "panic"}
        /\ (evals' # evals => evals'[Len(evals')].phase = "B")
        /\ (sent' # sent => sent'[Len(sent')].Phase # "InitialSampling")

\* C5: the two phases run in strict sequence, with no backward transition.
C5_StrictSequence == [](C5_PhaseADone) /\ [][C5_NoWayBack]_vars

\* A run with both phases has returned, with events of both.
C5_Witness ==
    /\ pc = "done"
    /\ config.InitialSamples > 0
    /\ config.Iterations > 1
    /\ \E k \in 1 .. Len(sent) : sent[k].Phase = "InitialSampling"
    /\ \E k \in 1 .. Len(sent) : sent[k].Phase = "Optimization"

\* C6: a channel of capacity at least InitialSamples + Iterations that nobody
\* closed has received exactly that many events when the run has ended.
C6_AllEventsReceived ==
    (Terminated /\ config.ProgressChan /\ ~chanClosed /\ chanCap >= TotalEvaluations)
        => Len(received) + Len(chanBuf) = TotalEvaluations

\* C7: whatever the channel and its reader do, the driver is never stopped
\* short of its return.
C7_RunReturns == pc = "done" \/ ENABLED Driver

\* C8: emitting an event never aborts the run.
C8_EmissionNeverAborts == panicMsg # "send on closed channel"

\* p has one value per dimension, each within its declared range.
InRange(p) ==
    /\ Len(p) = Len(hypers)
    /\ \A k \in 1 .. Len(p) : hypers[k].Min <= p[k] /\ p[k] <= hypers[k].Max

\* C9: every Phase A sample and every Phase B candidate lies within the
\* declared ranges, for every kind T.
C9_SamplesInRange ==
    /\ (pc = "A_eval" => InRange(params))
    /\ ((pc = "B_cand" /\ j > 0) => InRange(candidateParams))

\* C10: every objective call, in both phases, gets one parameter per
\* declared dimension.
C10_ObjectiveArity ==
    \A k \in 1 .. Len(evals) : Len(evals[k].point) = Len(hypers)

-----------------------------------------------------------------------------
\* C11: whenever at least one evaluation of the run succeeded, the returned
\* vector is the point of a successful evaluation; a failed point is returned
\* only if every evaluation failed.
C11_BestIsSuccessful ==
    (pc = "done" /\ \E k \in 1 .. Len(evals) : ~evals[k].failed)
        => \E k \in 1 .. Len(evals) : ~evals[k].failed /\ bestParams = evals[k].point

\* C12: a failed evaluation records more than any successful one, and of two
\* failed evaluations the one that took longer records strictly more.
C12_PenaltyOrdersFailures ==
    \A k, m \in 1 .. Len(evals) :
        /\ evals[k].failed => evals[k].cost >= HalfMax
        /\ (evals[k].failed /\ ~evals[m].failed) => evals[k].cost > evals[m].cost
        /\ (evals[k].failed /\ evals[m].failed /\ evals[k].duration < evals[m].duration)
              => evals[k].cost < evals[m].cost

\* Score a is numerically below score b (false as soon as one of them is NaN).
ScoreLess(a, b) == ~a.nan /\ ~b.nan /\ a.v < b.v
ScoreEqual(a, b) == ~a.nan /\ ~b.nan /\ a.v = b.v

\* C13: when the candidate loop of an iteration ends, exactly NumCandidates
\* candidates have been drawn and scored, and the point about to be evaluated
\* is the first drawn candidate whose score is the minimum of the iteration.
C13_EvaluatesFirstMinimum ==
    (pc = "B_cand" /\ ~LoopContinues(j, config.NumCandidates))
        => /\ Len(cands) = config.NumCandidates
           /\ config.NumCandidates > 0
                 => \E k \in 1 .. Len(cands) :
                       /\ params = cands[k].point
                       /\ \A m \in 1 .. Len(cands) :
                             ~ScoreLess(cands[m].score, cands[k].score)
                       /\ \A m \in 1 .. k - 1 :
                             ~ScoreEqual(cands[m].score, cands[k].score)

IsPhaseBEval(e) == e.phase = "B"
IsPhaseBEvent(u) == u.Phase = PhaseBName

\* C14: with InitialSamples = 0 the first phase calls the objective zero times,
\* records no observation and emits no event; likewise the second phase with
\* Iterations = 0; with both zero the run returns a vector of length d and the
\* objective was never called.
C14_ZeroRepetitionsNoOp ==
    /\ config.InitialSamples = 0
          => /\ Count(evals, IsPhaseAEval) = 0
             /\ Count(sent, IsPhaseAEvent) = 0
             /\ Len(gpX) <= Count(evals, IsPhaseBEval)
             /\ pc \notin {"A_eval", "A_update", "A_best", "A_send"}
    /\ config.Iterations = 0
          => /\ Count(evals, IsPhaseBEval) = 0
             /\ Count(sent, IsPhaseBEvent) = 0
             /\ Len(gpX) <= Count(evals, IsPhaseAEval)
             /\ pc \notin {"B_cand", "B_update", "B_best", "B_send"}
             /\ cands = <<>>
    /\ (pc = "done" /\ config.InitialSamples = 0 /\ config.Iterations = 0)
          => /\ evals = <<>>
             /\ gpX = <<>>
             /\ sent = <<>>
             /\ Len(bestParams) = Len(hypers)
             /\ bestTime = MaxFloat64

\* A run with both counts zero returned a vector for one hyperparameter.
C14_Witness ==
    /\ pc = "done"
    /\ config.InitialSamples = 0
    /\ config.Iterations = 0
    /\ config.ProgressChan
    /\ Len(hypers) = 1
    /\ Len(bestParams) = 1

-----------------------------------------------------------------------------
\* C15: Thompson Sampling called without a random source ends with an explicit
\* error: it neither returns a score nor stops on a runtime fault.
C15_NilSourceExplicitError ==
    (op.name = "ThompsonSampling" /\ rng.nil) => op.kind \notin {"value", "fault"}

\* C17: Predict on a surrogate with no observation returns mean 0 and
\* variance 1, whatever the input vector and the kernel width.
C17_EmptyPredict ==
    (op.name = "Predict" /\ gpX = <<>>)
        => /\ op.kind = "value"
           /\ op.val = Num(0)
           /\ op.val2 = Num(FDen)

\* Predict was called with a vector of one coordinate on an empty surrogate
\* whose width had been set to 0.
C17_Witness ==
    /\ op.name = "Predict"
    /\ gpX = <<>>
    /\ gpSigma = 0
    /\ Len(op.args[1]) = 1

\* C18: along a streak of updates with the same point p and cost c, each
\* update leaves |predict(p).mean - c| no larger than it was before.
C18_MeanApproachesCost ==
    \A k \in 1 .. Len(trail) - 1 :
        (trail[k].ok /\ trail[k + 1].ok) => FLessEq(trail[k + 1].dist, trail[k].dist)

\* The last two calls were the same acquisition function with the same arguments.
SameCallAgain == op'.name \in AcquisitionNames /\ op'.name = op.name /\ op'.args = op.args
SameOutcome == op'.kind = op.kind /\ op'.msg = op.msg /\ op'.val = op.val

\* C19 as stated: each of the four acquisition functions returns the same
\* score for the same arguments and changes no state.
C19_AllPure ==
    [][/\ SameCallAgain => SameOutcome
       /\ op'.name \in AcquisitionNames => rng' = rng]_vars

\* C19, amended: UCB, ProbabilityOfImprovement and ExpectedImprovement return
\* the same score for the same arguments and leave the random source alone;
\* a ThompsonSampling call on a random source returns mean + sqrt(variance) *
\* the source's next draw and moves the source on.
C19_PureExceptThompson ==
    [][/\ (SameCallAgain /\ op'.name # "ThompsonSampling") => SameOutcome
       /\ (op'.name \in AcquisitionNames /\ op'.name # "ThompsonSampling") => rng' = rng
       /\ (op'.name = "ThompsonSampling" /\ ~rng.nil /\ <<op, rng>>' # <<op, rng>>)
             => /\ rng'.state # rng.state
                /\ op'.kind = "value"
                /\ op'.val = FAdd(op'.args[1],
                                  FMul(FSqrt(op'.args[2]), NormFloat64(rng.state)))]_vars

\* ThompsonSampling returned a score other than its mean and moved the source.
C19_Witness ==
    /\ op.name = "ThompsonSampling"
    /\ op.kind = "value"
    /\ ~op.val.nan
    /\ op.val # op.args[1]
    /\ rng.state # 0

\* C20: for two vectors of equal length the kernel gives the same result with
\* its arguments exchanged, at every kernel width.
C20_KernelSymmetric ==
    (op.name = "RBFKernel" /\ Len(op.args[1]) = Len(op.args[2]))
        => op = Call("RBFKernel", op.args, RBFKernel(op.args[2], op.args[1], gpSigma))

\* The kernel was called on two different points and returned a value strictly
\* between 0 and 1.
C20_Witness ==
    /\ op.name = "RBFKernel"
    /\ op.kind = "value"
    /\ op.args[1] # op.args[2]
    /\ ~op.val.nan
    /\ 0 < op.val.v
    /\ op.val.v < FDen

-----------------------------------------------------------------------------
\* C21: of two UCB calls with the same mean and the same variance > 0, the
\* one with the larger beta returns the strictly smaller score.
C21_UCBStrictInBeta ==
    [][(/\ op.name = "UCB" /\ op'.name = "UCB"
        /\ op'.args[1] = op.args[1]
        /\ op'.args[2] = op.args[2]
        /\ ScoreLess(Num(0), op.args[2])
        /\ ScoreLess(op.args[3], op'.args[3]))
          => ScoreLess(op'.val, op.val)]_vars

-----------------------------------------------------------------------------
\* C22: goroutines calling Predict, Update, GetSigma and SetSigma on one
\* surrogate never block one another for good: unless every call has
\* returned, some goroutine can take a step.
C22_NoLockWaitForever ==
    (\A p \in Procs : gpc[p] = "idle" /\ calls[p] = 0) \/ ENABLED LockNext

\* C23: while a goroutine is inside the critical section of Update or
\* SetSigma, no other goroutine is inside a critical section of the surrogate.
C23_WritersExclude ==
    \A p \in Procs : \A q \in Procs \ {p} : InWrite(p) => ~InWrite(q) /\ ~InRead(q)

\* Two Predict calls are inside their critical sections at the same time.
C23_Witness == \E p \in Procs : \E q \in Procs \ {p} : InPredict(p) /\ InPredict(q)

\* C24: whenever a Predict call holds its read lock, the surrogate stores as
\* many input vectors as costs.
C24_PredictSeesEqualCounts ==
    \A p \in Procs : InPredict(p) => Len(gpX) = Len(gpY)

\* A Predict call is inside its critical section on a non-empty history while
\* an Update has announced itself.
C24_Witness ==
    \E p \in Procs : \E q \in Procs \ {p} :
        InPredict(p) /\ Len(gpX) > 0 /\ gpc[q] = "U_wait"

-----------------------------------------------------------------------------
\* C25: all input vectors the surrogate stores have the length of the first
\* one recorded.
C25_OneDimension ==
    \A k \in 1 .. Len(gpX) : Len(gpX[k]) = Len(gpX[1])

\* C26: during a run every vector given to the surrogate has length d, and
\* the run is never aborted by the kernel's length check.
C26_NoKernelAbort ==
    /\ \A k \in 1 .. Len(gpX) : Len(gpX[k]) = Len(hypers)
    /\ panicMsg # "input vectors must have the same length"

\* s is a prefix of t.
IsPrefix(s, t) == Len(s) <= Len(t) /\ \A k \in 1 .. Len(s) : s[k] = t[k]

\* C27: every step leaves the recorded vectors and costs in place, at most
\* adding to their end; a write of the caller to the vector it passed to
\* Update is such a step.
C27_AppendOnly ==
    [][IsPrefix(gpX, gpX') /\ IsPrefix(gpY, gpY')]_vars

\* The caller's vector differs from the one the last Update stored.
C27_Witness ==
    /\ op.name = "Update"
    /\ Len(gpX) > 1
    /\ op.args[1] # gpX[Len(gpX)]

\* C28: within a run the surrogate's history is the sequence of (point
\* evaluated, recorded cost) of the evaluations made so far, in evaluation
\* order; the observation of an evaluation is in the history before the
\* best-state update and the progress event of that evaluation, and before
\* any candidate of the following iteration is scored.
C28_ObservationsInOrder ==
    LET observed == IF pc \in {"A_update", "B_update"} THEN Len(evals) - 1 ELSE Len(evals) IN
    /\ Len(gpX) = observed
    /\ Len(gpY) = observed
    /\ \A n \in 1 .. observed :
          /\ gpX[n] = ParamsToFloat64s(T, evals[n].point)
          /\ gpY[n] = evals[n].cost
    /\ pc \in {"A_best", "B_best", "A_send", "B_send"} => Len(gpX) = Len(evals)
    /\ Len(sent) <= Len(gpX)
    /\ Len(cands) > 0 => Len(gpX) = Len(evals)

\* A second iteration scores a candidate over a history of two different
\* observations.
C28_Witness ==
    /\ pc = "B_cand"
    /\ Len(cands) > 0
    /\ Len(gpX) = 2
    /\ <<gpX[1], gpY[1]>> # <<gpX[2], gpY[2]>>

\* The lowest recorded cost of the evaluations made, MaxFloat64 when there is none.
MinCost(es) ==
    IF Len(es) = 0 THEN MaxFloat64
    ELSE CHOOSE c \in {es[k].cost : k \in 1 .. Len(es)} :
           \A k \in 1 .. Len(es) : c <= es[k].cost

\* C29: every Phase B iteration starts by setting BestSoFar to the global
\* best cost, so every candidate of an iteration is scored with the lowest
\* recorded cost of the evaluations completed before it, MaxFloat64 when
\* none has completed.
C29_BestSoFarIsCurrentBest ==
    /\ pc = "B_cand" => config.BestSoFar = bestTime /\ bestTime = MinCost(evals)
    /\ \A k \in 1 .. Len(cands) : cands[k].bestSoFar = MinCost(evals)

\* A candidate has been scored against the cost of an earlier evaluation.
C29_Witness ==
    /\ pc = "B_cand"
    /\ Len(cands) > 0
    /\ Len(evals) > 0
    /\ cands[1].bestSoFar < MaxFloat64
    /\ cands[1].bestSoFar = MinCost(evals)

\* C30: every draw from a random source made during a run, for a sampled
\* coordinate or while a candidate is scored, is made while rngMu is held.
C30_DrawsUnderLock == \A dr \in draws : dr.locked

\* Is s a subsequence of t: its elements occur in t in the same order.
IsSubsequence(s, t) ==
    \E f \in [1 .. Len(s) -> 1 .. Len(t)] :
        /\ \A k \in 1 .. Len(s) : s[k] = t[f[k]]
        /\ \A a \in 1 .. Len(s) : \A b \in 1 .. Len(s) : a < b => f[a] < f[b]

\* The updates the channel has accepted, oldest first: those the reader has
\* taken, then those still buffered.
Accepted == received \o chanBuf

\* A step of sendProgress that finds the open channel not ready.
IsOverflowSend ==
    /\ pc \in {"A_send", "B_send"}
    /\ pc' # pc
    /\ config.ProgressChan
    /\ ~chanClosed
    /\ ~SendReady

\* C31 (state part): the accepted events are a subsequence of the emitted
\* ones in emission order, and within a phase their iteration indices are
\* strictly increasing.
C31_AcceptedInOrder ==
    /\ IsSubsequence(Accepted, sent)
    /\ \A a \in 1 .. Len(Accepted) : \A b \in 1 .. Len(Accepted) :
          (a < b /\ Accepted[a].Phase = Accepted[b].Phase)
              => Accepted[a].CurrentIteration < Accepted[b].CurrentIteration

\* C31 (step part): no step removes or reorders an accepted event, and on
\* overflow it is the new event that is dropped.
C31_NeverRemoved ==
    /\ IsPrefix(Accepted, Accepted')
    /\ IsPrefix(received, received')
    /\ IsOverflowSend => Accepted' = Accepted /\ Len(sent') = Len(sent) + 1

\* C31: the events the observer receives are a subsequence of the events
\* the driver emitted, in emission order; on overflow the new event is
\* dropped, an accepted event is never removed or overtaken, and within a
\* phase the received iteration indices are strictly increasing.
C31_ReceivedIsSubsequence == [](C31_AcceptedInOrder) /\ [][C31_NeverRemoved]_vars

\* The run has ended with three events emitted, the second dropped on
\* overflow, and the first and the third received.
C31_Witness ==
    /\ pc = "done"
    /\ Len(sent) = 3
    /\ received = <<sent[1], sent[3]>>

\* The point whose coordinates are the integers of an event's parameter list,
\* in the representation of kind K.
PointOfInts(K, ints) == [k \in 1 .. Len(ints) |-> Rep(K, ints[k])]

\* The 1-based position of evaluation n within its phase.
PositionInPhase(n) ==
    Cardinality({k \in 1 .. n : evals[k].phase = evals[n].phase})

\* The costs, indices and totals of the emitted events: each is taken after
\* the best-state update of its evaluation.
C32_CostsAndIndices ==
    \A n \in 1 .. Len(sent) :
        /\ n <= Len(evals)
        /\ sent[n].LastExecutionTime = evals[n].cost
        /\ sent[n].CurrentBestTime = MinCost(SubSeq(evals, 1, n))
        /\ sent[n].CurrentBestTime <= sent[n].LastExecutionTime
        /\ sent[n].CurrentIteration = PositionInPhase(n)
        /\ sent[n].TotalIterations =
              (IF evals[n].phase = "A" THEN config.InitialSamples ELSE config.Iterations)

\* C32: every emitted event is a snapshot taken after the best-state update
\* of its evaluation: its best cost is the lowest recorded cost up to and
\* including that evaluation, its best parameters are the point of an
\* evaluation that recorded that cost, its index is the position within the
\* phase and its total is InitialSamples or Iterations.
C32_EventsAreSnapshots ==
    /\ C32_CostsAndIndices
    /\ \A n \in 1 .. Len(sent) :
          \E k \in 1 .. n :
              /\ evals[k].cost = sent[n].CurrentBestTime
              /\ PointOfInts(T, sent[n].CurrentBestParams) = evals[k].point

=============================================================================
